---- MODULE Spec2Model ----
(***************************************************************************)
(* Dou Dizhu rules engine and AI decision engine.                          *)
(*                                                                         *)
(* A list of cards is modelled by its rank multiset, a function from rank  *)
(* to the number of cards of that rank: the cards of a hand are distinct   *)
(* cards of one 54-card deck, and no decision of the code reads a suit     *)
(* other than to tell two cards of one rank apart.  Where the code         *)
(* iterates a Python set of CardValue (whose order is the hash order of    *)
(* the member names) the model keeps every order.                          *)
(***************************************************************************)
EXTENDS Integers, Sequences, FiniteSets, TLC

VARIABLES cards,        \* the card list an operation is applied to (a hand, or a proposed play)
          table_cards,  \* the standing play, empty when there is none
          is_landlord,  \* role of the player who decides
          pc,           \* "input" before the operation, its name after
          ret,          \* what the operation returned
          game          \* the fields of the DoudizhuGame object, NoGame where no game runs

vars == <<cards, table_cards, is_landlord, pc, ret, game>>

----------------------------------------------------------------------------
(* shared_types.py *)

THREE == 3
ACE == 14
TWO == 15
SMALL_JOKER == 16
BIG_JOKER == 17

CardValue == THREE..BIG_JOKER

PlayType == {"SINGLE", "PAIR", "TRIO", "TRIO_SINGLE", "TRIO_PAIR", "STRAIGHT",
             "PAIR_STRAIGHT", "PLANE", "PLANE_SINGLE", "PLANE_PAIR",
             "FOUR_WITH_TWO", "BOMB", "ROCKET"}

\* classify_cards returns (None, None) for a card list that is no legal shape
NoPlay == <<"NONE", 0>>

----------------------------------------------------------------------------
(* card lists as rank multisets *)

NoCards == [v \in CardValue |-> 0]

RECURSIVE SumUpTo(_, _)
SumUpTo(c, v) == IF v < THREE THEN 0 ELSE c[v] + SumUpTo(c, v - 1)

Size(c) == SumUpTo(c, BIG_JOKER)

Values(c) == {v \in CardValue : c[v] > 0}

Plus(a, b) == [v \in CardValue |-> a[v] + b[v]]

Minus(a, b) == [v \in CardValue |-> IF a[v] > b[v] THEN a[v] - b[v] ELSE 0]

SubBag(a, b) == \A v \in CardValue : a[v] <= b[v]

Of(v, n) == [w \in CardValue |-> IF w = v THEN n ELSE 0]

Jokers == {SMALL_JOKER, BIG_JOKER}

\* the 54 cards: four suits of 3..2 and the two jokers
Deck == [v \in CardValue |-> IF v >= SMALL_JOKER THEN 1 ELSE 4]

\* every list of at most maxn cards taken from the card list all, of ranks
\* lo or higher, built rank by rank
RECURSIVE BagsFrom(_, _, _)
BagsFrom(all, lo, maxn) ==
    IF lo > BIG_JOKER THEN {NoCards}
    ELSE LET rest == BagsFrom(all, lo + 1, maxn)
         IN  {c \in {[b EXCEPT ![lo] = k] : b \in rest, k \in 0..all[lo]} : Size(c) <= maxn}

\* combinations(remaining, n) as card lists
Combinations(remaining, n) == {w \in BagsFrom(remaining, THREE, n) : Size(w) = n}

\* sorted(S, key=lambda v: v.value) as a sequence
Sorted(S) == [i \in 1..Cardinality(S) |->
                 CHOOSE v \in S : Cardinality({w \in S : w < v}) = i - 1]

Max(S) == CHOOSE v \in S : \A w \in S : w <= v
Min(S) == CHOOSE v \in S : \A w \in S : v <= w

\* all(seq[start + i] == seq[start] + i for i in range(n)), start counted from 0
IsRun(seq, start, n) == \A i \in 0..(n - 1) : seq[start + 1 + i] = seq[start + 1] + i

\* the (run_len, start) pairs of a double loop, first one first
FirstOf(P) == CHOOSE p \in P : \A q \in P : p[1] < q[1] \/ (p[1] = q[1] /\ p[2] <= q[2])

----------------------------------------------------------------------------
(* DoudizhuGame.classify_cards *)

\* the plane branch for one (run_len, start) of the double loop
PlaneAt(c, tv, run_len, start) ==
    LET length == Size(c)
        run == {tv[start + 1 + i] : i \in 0..(run_len - 1)}
        base_cards == run_len * 3
        rest_pairs == Cardinality({v \in Values(c) \ run : c[v] >= 2})
    IN  IF ~IsRun(tv, start, run_len) THEN NoPlay
        ELSE IF length = base_cards THEN <<"PLANE", tv[start + run_len]>>
        ELSE IF length = base_cards + run_len THEN <<"PLANE_SINGLE", tv[start + run_len]>>
        ELSE IF length = base_cards + run_len * 2 /\ rest_pairs >= run_len
             THEN <<"PLANE_PAIR", tv[start + run_len]>>
        ELSE NoPlay

\* line 707: ranks held at least twice, 2 and jokers left out
PairValsAnyRank(c) == {v \in Values(c) : c[v] >= 2}
PairVals(c) == {v \in Values(c) : c[v] >= 2 /\ v < TWO}

\* line 721: distinct ranks below 2
SingleVals(c) == {v \in Values(c) : v < TWO}

\* line 727: ranks held at least three times, 2 left out
TrioVals(c) == {v \in Values(c) : c[v] >= 3 /\ v < TWO}

classify_cards(c) ==
    LET length == Size(c)
        counts == {c[v] : v \in Values(c)}
        fours == {v \in Values(c) : c[v] = 4}
        four_val == Min(fours)
        four_others == Values(c) \ {four_val}
        trio_val == Min({v \in Values(c) : c[v] = 3})
        trio_others == Values(c) \ {trio_val}
        pv == Sorted(PairVals(c))
        pn == Len(pv)
        pair_runs == {p \in (3..pn) \X (0..pn) :
                         /\ p[2] <= pn - p[1]
                         /\ IsRun(pv, p[2], p[1])
                         /\ length = p[1] * 2}
        sv == Sorted(SingleVals(c))
        tv == Sorted(TrioVals(c))
        tn == Len(tv)
        plane_runs == {p \in (2..tn) \X (0..tn) :
                          /\ p[2] <= tn - p[1]
                          /\ PlaneAt(c, tv, p[1], p[2]) # NoPlay}
    IN  IF length = 0 THEN NoPlay
        ELSE IF length = 2 /\ c[SMALL_JOKER] > 0 /\ c[BIG_JOKER] > 0
             THEN <<"ROCKET", BIG_JOKER>>
        ELSE IF length = 1 THEN <<"SINGLE", Min(Values(c))>>
        ELSE IF length = 2 /\ Cardinality(Values(c)) = 1 THEN <<"PAIR", Min(Values(c))>>
        ELSE IF length = 3 /\ 3 \in counts THEN <<"TRIO", trio_val>>
        ELSE IF length = 4 /\ 4 \in counts THEN <<"BOMB", four_val>>
        ELSE IF /\ fours # {}
                /\ \/ length = 6 /\ Cardinality(four_others) = 2
                                 /\ \A v \in four_others : c[v] = 1
                   \/ length = 8 /\ Cardinality(four_others) = 2
                                 /\ \A v \in four_others : c[v] = 2
             THEN <<"FOUR_WITH_TWO", four_val>>
        ELSE IF 3 \in counts /\ length = 4 THEN <<"TRIO_SINGLE", trio_val>>
        ELSE IF 3 \in counts /\ length = 5 /\ {c[v] : v \in trio_others} = {2}
                /\ Cardinality(trio_others) = 1
             THEN <<"TRIO_PAIR", trio_val>>
        ELSE IF 3 \in counts /\ length = 5 /\ Cardinality(trio_others) = 2
                /\ \A v \in trio_others : c[v] = 1
             THEN <<"TRIO_SINGLE", trio_val>>
        ELSE IF pn >= 3 /\ pair_runs # {}
             THEN <<"PAIR_STRAIGHT", pv[FirstOf(pair_runs)[2] + FirstOf(pair_runs)[1]]>>
        ELSE IF Len(sv) >= 5 /\ length = Len(sv) /\ IsRun(sv, 0, Len(sv))
             THEN <<"STRAIGHT", sv[Len(sv)]>>
        ELSE IF tn >= 2 /\ plane_runs # {}
             THEN PlaneAt(c, tv, FirstOf(plane_runs)[1], FirstOf(plane_runs)[2])
        ELSE NoPlay

----------------------------------------------------------------------------
(* DoudizhuGame._compare_play: 1 = wins, -1 = loses, 0 = invalid comparison *)

CompareKeysSwapped(key1, key2) == IF key1 < key2 THEN 1 ELSE IF key1 > key2 THEN -1 ELSE 0

\* 1 if key1 > key2 else (-1 if key1 < key2 else 0)
CompareKeys(key1, key2) == IF key1 > key2 THEN 1 ELSE IF key1 < key2 THEN -1 ELSE 0

\* _compare_play with a tie of the keys read as a win
compare_play_ties_win(c, last_cards) ==
    LET p1 == classify_cards(c)
        p2 == classify_cards(last_cards)
        type1 == p1[1]
        type2 == p2[1]
    IN  IF Size(c) = 0 THEN -1
        ELSE IF Size(last_cards) = 0 THEN 1
        ELSE IF type1 = "NONE" \/ type2 = "NONE" THEN 0
        ELSE IF type1 = type2
             THEN IF Size(c) # Size(last_cards) THEN 0
                  ELSE IF p1[2] >= p2[2] THEN 1 ELSE -1
        ELSE IF type1 = "ROCKET" THEN 1
        ELSE IF type2 = "ROCKET" THEN -1
        ELSE IF type1 = "BOMB" /\ type2 # "ROCKET" THEN 1
        ELSE IF type2 = "BOMB" /\ type1 # "ROCKET" THEN -1
        ELSE 0

compare_play(c, last_cards) ==
    LET p1 == classify_cards(c)
        p2 == classify_cards(last_cards)
        type1 == p1[1]
        type2 == p2[1]
        len1 == Size(c)
        len2 == Size(last_cards)
    IN  IF Size(c) = 0 THEN -1
        ELSE IF Size(last_cards) = 0 THEN 1
        ELSE IF type1 = "NONE" \/ type2 = "NONE" THEN 0
        ELSE IF type1 = type2
             THEN IF type1 \in {"STRAIGHT", "PAIR_STRAIGHT", "PLANE", "PLANE_PAIR", "PLANE_SINGLE"}
                  THEN IF len1 # len2 THEN 0 ELSE CompareKeys(p1[2], p2[2])
                  ELSE IF type1 = "FOUR_WITH_TWO"
                  THEN IF len1 # len2 THEN 0 ELSE CompareKeys(p1[2], p2[2])
                  ELSE IF len1 # len2 THEN 0 ELSE CompareKeys(p1[2], p2[2])
        ELSE IF type1 = "ROCKET" THEN 1
        ELSE IF type2 = "ROCKET" THEN -1
        ELSE IF type1 = "BOMB" /\ type2 # "ROCKET" THEN 1
        ELSE IF type2 = "BOMB" /\ type1 # "ROCKET" THEN -1
        ELSE 0

(* DoudizhuGame.is_valid_play *)
game_is_valid_play_lenient(c, last_cards) ==
    IF Size(c) = 0 THEN TRUE
    ELSE IF Size(last_cards) = 0 THEN TRUE
    ELSE IF classify_cards(c)[1] = "NONE" THEN FALSE
    ELSE compare_play(c, last_cards) >= 0
game_is_valid_play(c, last_cards) ==
    IF Size(c) = 0 THEN TRUE
    ELSE IF Size(last_cards) = 0 THEN TRUE
    ELSE IF classify_cards(c)[1] = "NONE" THEN FALSE
    ELSE compare_play(c, last_cards) > 0

----------------------------------------------------------------------------
(* DoudizhuAI._analyze_play: (shape, rank); SINGLE of the highest rank when *)
(* no branch matches                                                        *)

analyze_play(c) ==
    LET n == Size(c)
        counts == {c[v] : v \in Values(c)}
        trio_value == Min({v \in Values(c) : c[v] >= 3})
        trio_count == c[trio_value]
        others == Values(c) \ {trio_value}
        pair_values == Sorted({v \in Values(c) : c[v] >= 2})
        single_vals == Sorted({v \in Values(c) : c[v] = 1})
        trio_values == Sorted({v \in Values(c) : c[v] >= 3})
        nt == Len(trio_values)
        wing_count == n - nt * 3
        wing_values == {v \in Values(c) : c[v] = 1}
        pair_wing_values == {v \in Values(c) : c[v] >= 2}
    IN  IF n = 0 THEN <<"SINGLE", THREE>>
        ELSE IF n = 1 THEN <<"SINGLE", Min(Values(c))>>
        ELSE IF n = 2 /\ Cardinality(Values(c)) = 1 THEN <<"PAIR", Min(Values(c))>>
        ELSE IF n = 2 /\ c[SMALL_JOKER] > 0 /\ c[BIG_JOKER] > 0 THEN <<"ROCKET", BIG_JOKER>>
        ELSE IF n = 4 /\ 4 \in counts THEN <<"BOMB", Max(Values(c))>>
        ELSE IF 3 \in counts /\ n = 3 THEN <<"TRIO", trio_value>>
        ELSE IF 3 \in counts /\ n = 4 /\ trio_count + 1 = n THEN <<"TRIO_SINGLE", trio_value>>
        ELSE IF 3 \in counts /\ n = 5 /\ Cardinality(others) = 1 /\ \A v \in others : c[v] = 2
             THEN <<"TRIO_PAIR", trio_value>>
        ELSE IF 3 \in counts /\ n = 5 /\ Cardinality(others) = 2 /\ \A v \in others : c[v] = 1
             THEN <<"TRIO_SINGLE", trio_value>>
        ELSE IF /\ 2 \in counts /\ n >= 6
                /\ IsRun(pair_values, 0, Len(pair_values))
                /\ Len(pair_values) >= 3
                /\ Len(pair_values) * 2 = n
             THEN <<"PAIR_STRAIGHT", pair_values[Len(pair_values)]>>
        ELSE IF /\ Len(single_vals) >= 5 /\ Len(single_vals) = n
                /\ IsRun(single_vals, 0, Len(single_vals))
             THEN <<"STRAIGHT", single_vals[Len(single_vals)]>>
        ELSE IF 3 \in counts /\ IsRun(trio_values, 0, nt) /\ wing_count = 0
             THEN <<"PLANE", trio_values[nt]>>
        ELSE IF /\ 3 \in counts /\ IsRun(trio_values, 0, nt) /\ wing_count = nt
                /\ Cardinality(wing_values) = wing_count
             THEN <<"PLANE_SINGLE", trio_values[nt]>>
        ELSE IF /\ 3 \in counts /\ IsRun(trio_values, 0, nt) /\ wing_count = nt * 2
                /\ Cardinality(pair_wing_values) = nt
             THEN <<"PLANE_PAIR", trio_values[nt]>>
        ELSE IF n = 6 /\ 4 \in counts THEN <<"FOUR_WITH_TWO", Max(Values(c))>>
        ELSE <<"SINGLE", Max(Values(c))>>

(* DoudizhuAI.is_valid_play *)
ai_is_valid_play(c, table) ==
    LET play == analyze_play(c)
        tab == analyze_play(table)
    IN  IF Size(c) = 0 THEN TRUE
        ELSE IF Size(table) = 0 THEN TRUE
        ELSE IF play[1] = "ROCKET" THEN TRUE
        ELSE IF tab[1] = "ROCKET" THEN FALSE
        ELSE IF play[1] = "BOMB"
             THEN IF tab[1] = "BOMB" THEN play[2] > tab[2] ELSE TRUE
        ELSE IF play[1] # tab[1] THEN FALSE
        ELSE IF Size(c) # Size(table) THEN FALSE
        ELSE play[2] > tab[2]

----------------------------------------------------------------------------
(* DoudizhuAI.get_all_playable_moves and its helpers.  A generated move is  *)
(* kept with the place it has in the returned list: grp numbers the         *)
(* generating loops in the order they run, key orders the moves of one loop *)

\* DoudizhuAI._get_repeated_values
get_repeated_values(c, count) == {v \in Values(c) : c[v] >= count}

BagOf(S, n) == [v \in CardValue |-> IF v \in S THEN n ELSE 0]

Entry(move, grp, key) == [move |-> move, grp |-> grp, key |-> key]

\* the (length, start) windows of a sorted value list that are runs of
\* consecutive ranks, for length >= min_length
Windows(seq, min_length) ==
    {p \in (min_length..Len(seq)) \X (0..Len(seq)) :
        p[2] <= Len(seq) - p[1] /\ IsRun(seq, p[2], p[1])}

WindowValues(seq, p) == {seq[p[2] + 1 + i] : i \in 0..(p[1] - 1)}

\* itertools.combinations yields the combinations of the sorted remaining
\* cards in lexicographic order: the rank sequence of w read as a number
RECURSIVE ComboOrder(_, _, _)
ComboOrder(w, v, acc) ==
    IF v > BIG_JOKER THEN acc
    ELSE ComboOrder(w, v + 1,
            CASE w[v] = 0 -> acc
              [] w[v] = 1 -> acc * 18 + v
              [] w[v] = 2 -> (acc * 18 + v) * 18 + v
              [] w[v] = 3 -> ((acc * 18 + v) * 18 + v) * 18 + v
              [] OTHER    -> (((acc * 18 + v) * 18 + v) * 18 + v) * 18 + v)

\* valid_values without the test on the rank: every rank may join a run
StraightValuesAnyRank(c) == Values(c)

\* DoudizhuAI._get_straights
StraightValues(c) == {v \in Values(c) : v < TWO}

get_straights(c) ==
    LET unique_values == Sorted(StraightValues(c))
        sorted_cards == [v \in CardValue |-> IF v \in StraightValues(c) THEN c[v] ELSE 0]
    IN  IF Size(sorted_cards) < 5 THEN {}
        ELSE {Entry(BagOf(WindowValues(unique_values, p), 1), 6, <<p[1], p[2], 0, 0>>) :
                 p \in Windows(unique_values, 5)}

\* DoudizhuAI._get_pair_straights
get_pair_straights(c) ==
    LET pair_values == Sorted(get_repeated_values(c, 2))
    IN  {Entry(BagOf(WindowValues(pair_values, p), 2), 7, <<p[1], p[2], 0, 0>>) :
            p \in Windows(pair_values, 3)}

\* DoudizhuAI._get_planes
get_planes(c) ==
    LET trio_values == Sorted(get_repeated_values(c, 3))
    IN  {Entry(BagOf(WindowValues(trio_values, p), 3), 8, <<p[1], p[2], 0, 0>>) :
            p \in Windows(trio_values, 2)}

\* DoudizhuAI._get_plane_with_wings, the moves of one (trio_count, start)
WingsAt(c, trio_values, p) ==
    LET trio_count == p[1]
        plane_values == WindowValues(trio_values, p)
        trio_cards == BagOf(plane_values, 3)
        remaining == [v \in CardValue |-> IF v \in plane_values THEN 0 ELSE c[v]]
        pair_values == Sorted(get_repeated_values(c, 2) \ plane_values)
        np == Len(pair_values)
        singles == IF Size(remaining) >= trio_count
                   THEN {Entry(Plus(trio_cards, w), 9,
                               <<trio_count, p[2], 0, ComboOrder(w, THREE, 0)>>) :
                            w \in Combinations(remaining, trio_count)}
                   ELSE {}
        pairs == IF np >= trio_count /\ Size(remaining) >= trio_count * 2
                 THEN {Entry(Plus(trio_cards,
                                  BagOf({pair_values[i + 1 + k] : k \in 0..(trio_count - 1)}, 2)),
                             9, <<trio_count, p[2], 1, i>>) :
                          i \in 0..(np - trio_count)}
                 ELSE {}
    IN  singles \cup pairs

get_plane_with_wings(c) ==
    LET trio_values == Sorted(get_repeated_values(c, 3))
    IN  UNION {WingsAt(c, trio_values, p) : p \in Windows(trio_values, 2)}

\* the trio-with-attachment loop for one trio value
TrioAttach(c, value) ==
    {Entry(Plus(Of(value, 3), Of(single, 1)), 5, <<value, 0, single, 0>>) :
        single \in Values(c) \ {value}}
    \cup
    {Entry(Plus(Of(value, 3), Of(pair_val, 2)), 5, <<value, 1, pair_val, 0>>) :
        pair_val \in get_repeated_values(c, 2) \ {value}}

MoveEntries(c) ==
    IF Size(c) = 0 THEN {Entry(NoCards, 0, <<0, 0, 0, 0>>)}
    ELSE {Entry(NoCards, 0, <<0, 0, 0, 0>>)}
         \cup {Entry(Of(v, 1), 1, <<v, 0, 0, 0>>) : v \in Values(c)}
         \cup {Entry(Of(v, 2), 2, <<v, 0, 0, 0>>) : v \in get_repeated_values(c, 2)}
         \cup {Entry(Of(v, 3), 3, <<v, 0, 0, 0>>) : v \in get_repeated_values(c, 3)}
         \cup {Entry(Of(v, 4), 4, <<v, 0, 0, 0>>) : v \in {w \in get_repeated_values(c, 4) : c[w] = 4}}
         \cup UNION {TrioAttach(c, value) : value \in get_repeated_values(c, 3)}
         \cup get_straights(c)
         \cup get_pair_straights(c)
         \cup get_planes(c)
         \cup get_plane_with_wings(c)
         \cup IF c[SMALL_JOKER] > 0 /\ c[BIG_JOKER] > 0
              THEN {Entry(BagOf(Jokers, 1), 10, <<0, 0, 0, 0>>)}
              ELSE {}

\* DoudizhuAI.get_all_playable_moves, as the set of generated card lists
get_all_playable_moves(c) == {e.move : e \in MoveEntries(c)}

\* Player.get_all_playable_moves and Player._get_straights, _get_pair_straights,
\* _get_planes, _get_plane_with_wings repeat the same statements on self.cards
player_get_all_playable_moves(c) == {e.move : e \in MoveEntries(c)}

----------------------------------------------------------------------------
(* DoudizhuAI: the weights.  Every weight is an exact multiple of 0.05     *)
(* except W3, so a weight is kept in twentieths and W3 as a fraction.      *)

\* DoudizhuAI._play_smallest_card
play_smallest_card_empty(c) == NoCards
play_smallest_card(c) == IF Size(c) = 0 THEN NoCards ELSE Of(Min(Values(c)), 1)

\* DoudizhuAI._calculate_base_weight (W1), weights.get(play_type, 1.0)
calculate_base_weight(play_type, move) ==
    LET max_point == Max(Values(move))
        n == Size(move)
    IN  CASE play_type = "SINGLE"        -> 10 + (max_point - 3) * 2
          [] play_type = "PAIR"          -> 20 + (max_point - 3) * 3
          [] play_type = "TRIO"          -> 40
          [] play_type = "TRIO_SINGLE"   -> 30 + (max_point - 3) * 3
          [] play_type = "TRIO_PAIR"     -> 40 + (max_point - 3) * 3
          [] play_type = "STRAIGHT"      -> 60 + (n - 5) * 10
          [] play_type = "PAIR_STRAIGHT" -> 70 + ((n \div 2) - 3) * 20
          [] play_type = "PLANE"         -> 80 + ((n \div 3) - 2) * 30
          [] play_type = "PLANE_SINGLE"  -> 70 + ((n \div 4) - 2) * 24
          [] play_type = "PLANE_PAIR"    -> 80 + ((n \div 5) - 2) * 26
          [] play_type = "FOUR_WITH_TWO" -> 90
          [] play_type = "BOMB"          -> 160
          [] play_type = "ROCKET"        -> 200
          [] OTHER                       -> 20

\* DoudizhuAI._count_combinations: the value it returns (the running count
\* and the trio loop do not reach any return statement)
count_combinations(c) ==
    LET sorted_vals == Sorted({v \in Values(c) : v < TWO})
        sorted_pairs == Sorted({v \in Values(c) : c[v] >= 2 /\ v < TWO})
    IN  IF Size(c) = 0 THEN 0
        ELSE IF /\ Size(c) >= 5
                /\ IsRun(sorted_vals, 0, Len(sorted_vals))
                /\ Len(sorted_vals) >= 5
             THEN 1
        ELSE IF Len(sorted_pairs) >= 3 /\ IsRun(sorted_pairs, 0, Len(sorted_pairs))
             THEN Len(sorted_pairs)
        ELSE Cardinality(Values(c))

\* DoudizhuAI._calculate_hand_optimization_weight (W2)
calculate_hand_optimization_weight(c, move, current_combinations) ==
    (current_combinations - count_combinations(Minus(c, move))) * 40

\* DoudizhuAI._calculate_threat_weight (W3) is 10.0 / (remaining_cards + 1) * role_coef:
\* its numerator in twentieths; the denominator is remaining_cards + 1
ThreatNumerator(landlord) == IF landlord THEN 240 ELSE 160

\* DoudizhuAI._calculate_control_weight_v2 (W4): 0.0 when table_cards is empty,
\* and its one caller _choose_initiative_move passes []
calculate_control_weight_v2(move, table, opponent_count, seen_cards) ==
    LET play == analyze_play(move)
        potential_opponent_counter ==
            Cardinality({seen \in seen_cards : play[2] - seen <= 2 /\ play[2] - seen > 0})
    IN  IF Size(table) = 0 THEN 0
        ELSE (IF play[1] \in {"STRAIGHT", "PAIR_STRAIGHT"} /\ Size(move) >= 6 THEN 60 ELSE 0)
           + (IF play[1] = "BOMB" /\ opponent_count >= 2 THEN 40 ELSE 0)
           + (IF play[1] = "TRIO" /\ Size(move) = 3 /\ potential_opponent_counter >= 2
              THEN 40 ELSE 0)
           + (IF play[1] \in {"STRAIGHT", "PLANE"} /\ Size(move) >= 6 THEN 20 ELSE 0)

\* DoudizhuAI._calculate_position_weight (W5); get_best_move is called without
\* landlord_id, player_id and player_positions, so position is "unknown"
calculate_position_weight(move, landlord) ==
    LET max_point == Max(Values(move))
    IN  IF ~landlord THEN 0
        ELSE IF Size(move) = 1 /\ max_point <= 10 THEN 30
        ELSE IF Size(move) = 2 /\ Cardinality(Values(move)) = 1 /\ max_point <= 8 THEN 20
        ELSE IF max_point \in {TWO, SMALL_JOKER, BIG_JOKER} THEN 10
        ELSE 0

\* DoudizhuAI._can_finish_in_one_round
can_finish_in_one_round(c) ==
    IF Size(c) = 0 THEN FALSE
    ELSE IF Size(c) = 1 THEN TRUE
    ELSE \E move \in get_all_playable_moves(c) : Size(move) = Size(c)

\* DoudizhuAI._get_initiative_priority_weight when the hand cannot be
\* finished in one round (it is float('inf') for every move when it can)
get_initiative_priority_weight(move, c) ==
    LET play == analyze_play(move)
    IN    (IF play[1] = "SINGLE" /\ play[2] <= 10 THEN 24 ELSE 0)
        + (IF play[1] = "PAIR" /\ play[2] <= 8 THEN 30 ELSE 0)
        + (IF play[1] = "TRIO" THEN 36 ELSE 0)
        + (IF play[1] \in {"TRIO_SINGLE", "TRIO_PAIR"} THEN 40 ELSE 0)
        + (IF play[1] \in {"STRAIGHT", "PAIR_STRAIGHT", "PLANE"} THEN 60 ELSE 0)
        + (IF play[1] = "BOMB" THEN 80 ELSE 0)
        + (IF play[1] = "ROCKET" THEN 100 ELSE 0)
        + (IF Size(c) - Size(move) <= 5 THEN 40 ELSE 0)

\* DoudizhuAI._should_use_bomb with game_state = None
should_use_bomb(move, c, landlord) ==
    LET play == analyze_play(move)
        remaining == Minus(c, move)
        bomb_count == Size([v \in CardValue |->
                              IF remaining[v] > 0 /\ analyze_play(Of(v, 1))[1] = "BOMB"
                              THEN remaining[v] ELSE 0])
    IN  IF Size(move) = 0 THEN FALSE
        ELSE IF play[1] # "BOMB" /\ play[1] # "ROCKET" THEN FALSE
        ELSE IF Size(remaining) = 0 THEN TRUE
        ELSE IF landlord
             THEN Size(remaining) <= 3 \/ (bomb_count >= 1 /\ Size(remaining) <= 5)
        ELSE Size(remaining) <= 2

\* DoudizhuAI._calculate_follow_quality_factor (Q1)
calculate_follow_quality_factor(move, table) ==
    LET diff == analyze_play(move)[2] - analyze_play(table)[2]
    IN  IF diff <= 0 THEN 0
        ELSE IF diff <= 2 THEN 40 - diff * 4
        ELSE IF 40 - (diff - 2) * 8 > 0 THEN 40 - (diff - 2) * 8 ELSE 0

\* DoudizhuAI._calculate_destruction_factor (Q2)
calculate_destruction_factor(move, c) ==
    LET remaining == [v \in CardValue |-> IF move[v] > 0 THEN 0 ELSE c[v]]
    IN  - (  30 * Cardinality({v \in CardValue : remaining[v] >= 4})
           + 15 * Cardinality({v \in CardValue : remaining[v] = 3}))

\* DoudizhuAI._calculate_follow_control_factor (Q3)
calculate_follow_control_factor(move, c) ==
    LET remaining == Size(c) - Size(move)
    IN  IF remaining = 0 THEN 100 ELSE IF remaining <= 2 THEN 40 ELSE 0

\* DoudizhuAI._calculate_endgame_weight for a hand of at most 5 cards
calculate_endgame_weight(move, c, landlord) ==
    LET base_weight == calculate_base_weight(analyze_play(move)[1], move) * 2
        remaining == Minus(c, move)
        max_card == Max(Values(remaining))
        big == max_card \in {TWO, SMALL_JOKER, BIG_JOKER}
        finish_prob == IF Size(remaining) = 0 THEN 100
                       ELSE IF Size(remaining) <= 2
                            THEN (IF big THEN 90 ELSE IF max_card >= 11 THEN 70 ELSE 50)
                       ELSE (IF big THEN 60 ELSE IF max_card >= 11 THEN 40 ELSE 20)
    IN  IF Size(c) > 5 THEN 0
        ELSE base_weight + (IF landlord THEN finish_prob ELSE (finish_prob * 4) \div 5)

----------------------------------------------------------------------------
(* DoudizhuAI: the choice.  The move list is built in a fixed order except *)
(* where it iterates a Python set of CardValue, whose order the language   *)
(* does not fix; the first maximum of a scan is then any entry that no     *)
(* other maximal entry is certain to precede.                              *)

KeyLess(k1, k2) ==
    \E i \in 1..4 : k1[i] < k2[i] /\ \A j \in 1..(i - 1) : k1[j] = k2[j]

\* e is before f in the list get_all_playable_moves builds, whatever the set order
Before(e, f) ==
    \/ e.grp < f.grp
    \/ /\ e.grp = f.grp
       /\ e.grp \in {1, 6, 7, 8, 9}
       /\ KeyLess(e.key, f.key)
    \/ /\ e.grp = 5 /\ f.grp = 5
       /\ e.key[1] = f.key[1]
       /\ \/ e.key[2] < f.key[2]
          \/ e.key[2] = 0 /\ f.key[2] = 0 /\ e.key[3] < f.key[3]

FirstIn(S) == {e \in S : \A f \in S : ~Before(f, e)}

\* a weight n / 20 + num / (20 * den); terms are the float terms it is the sum of
Scored(e, n, num, den, terms) ==
    [e |-> e, grp |-> e.grp, key |-> e.key, n |-> n, num |-> num, den |-> den, terms |-> terms]

Greater(a, b) == a.n * a.den * b.den + a.num * b.den > b.n * a.den * b.den + b.num * a.den

\* the entry a scan "if weight > best_weight" (or a stable descending sort)
\* over S ends with.  Weights are compared as exact fractions.  Two weights
\* that are equal fractions are equal floats when they are sums of the same
\* terms, and the earlier entry wins; when they are sums of different terms
\* the rounding of the float sums decides, which is not modelled: either
\* may be the greater.
FirstMax(S) ==
    LET top == {a \in S : \A b \in S : ~Greater(b, a)}
    IN  {a.e.move : a \in UNION {FirstIn({b \in top : b.terms = c.terms}) : c \in top}}

Rockets(entries) == {e \in entries : analyze_play(e.move)[1] = "ROCKET"}

GatedBombs(entries, c, landlord) ==
    {e \in entries : analyze_play(e.move)[1] = "BOMB" /\ should_use_bomb(e.move, c, landlord)}

\* total_weight = w1 + w2 + w3 + w4 + w5 + priority of _choose_initiative_move
InitiativeWeight(e, c, landlord, current_combinations, finish) ==
    LET play_type == analyze_play(e.move)[1]
        w1 == calculate_base_weight(play_type, e.move)
        w2 == calculate_hand_optimization_weight(c, e.move, current_combinations)
        w3 == Size(c) - Size(e.move) + 1
        w4 == calculate_control_weight_v2(e.move, NoCards, 2, {})
        w5 == calculate_position_weight(e.move, landlord)
        priority == get_initiative_priority_weight(e.move, c)
    IN  IF finish THEN Scored(e, 0, 0, 1, <<>>)
        ELSE Scored(e, w1 + w2 + w4 + w5 + priority, ThreatNumerator(landlord), w3,
                    <<play_type, w1, w2, w3, w4, w5, priority>>)

\* DoudizhuAI._choose_initiative_move: the moves it can return
choose_initiative_move(moves, c, landlord) ==
    LET rockets == Rockets(moves)
        bombs == GatedBombs(moves, c, landlord)
        current_combinations == count_combinations(c)
        finish == can_finish_in_one_round(c)
        weighted == {InitiativeWeight(e, c, landlord, current_combinations, finish) :
                        e \in {f \in moves : Size(f.move) > 0}}
    IN  IF moves = {} THEN {NoCards}
        ELSE IF Size(c) = 1 THEN {play_smallest_card(c)}
        ELSE IF rockets # {} THEN {e.move : e \in FirstIn(rockets)}
        ELSE IF bombs # {} THEN {e.move : e \in FirstIn(bombs)}
        ELSE IF weighted = {} THEN {play_smallest_card(c)}
        ELSE {IF ai_is_valid_play(m, NoCards) THEN m ELSE NoCards : m \in FirstMax(weighted)}

\* DoudizhuAI._choose_endgame_move
choose_endgame_move(moves, c, landlord) ==
    LET rockets == Rockets(moves)
        bombs == GatedBombs(moves, c, landlord)
        weighted == {Scored(e, calculate_endgame_weight(e.move, c, landlord), 0, 1,
                            <<analyze_play(e.move)[1],
                              calculate_base_weight(analyze_play(e.move)[1], e.move)>>) :
                        e \in {f \in moves : Size(f.move) > 0}}
    IN  IF moves = {} THEN {NoCards}
        ELSE IF rockets # {} THEN {e.move : e \in FirstIn(rockets)}
        ELSE IF bombs # {} THEN {e.move : e \in FirstIn(bombs)}
        ELSE IF weighted = {} THEN {play_smallest_card(c)}
        ELSE FirstMax(weighted)

\* DoudizhuAI._choose_follow_move
choose_follow_move_first(valid_moves, table, c, landlord) ==
    IF {e \in valid_moves : Size(e.move) > 0} = {} THEN {NoCards}
    ELSE {e.move : e \in FirstIn({f \in valid_moves : Size(f.move) > 0})}
choose_follow_move(valid_moves, table, c, landlord) ==
    LET rockets == Rockets(valid_moves)
        bombs == GatedBombs(valid_moves, c, landlord)
        q1_scores == {Scored(e,   calculate_follow_quality_factor(e.move, table)
                                + calculate_destruction_factor(e.move, c)
                                + calculate_follow_control_factor(e.move, c), 0, 1,
                             <<calculate_follow_quality_factor(e.move, table),
                               calculate_destruction_factor(e.move, c),
                               calculate_follow_control_factor(e.move, c)>>) :
                         e \in valid_moves}
        smallest == play_smallest_card(c)
    IN  IF rockets # {} THEN {e.move : e \in FirstIn(rockets)}
        ELSE IF bombs # {} THEN {e.move : e \in FirstIn(bombs)}
        ELSE IF Size(c) <= 5 THEN choose_endgame_move(valid_moves, c, landlord)
        ELSE IF \E a \in q1_scores : a.n > 0 THEN FirstMax(q1_scores)
        ELSE IF Size(smallest) > 0 /\ ai_is_valid_play(smallest, table) THEN {smallest}
        ELSE {NoCards}

\* DoudizhuAI.get_best_move: the card lists it can return for a hand, the
\* cards on the table and the role
get_best_move(c, table, landlord) ==
    LET all_moves == MoveEntries(c)
        valid_moves == {e \in all_moves : ai_is_valid_play(e.move, table)}
    IN  IF Size(c) = 0 THEN {NoCards}
        ELSE IF Size(table) = 0 THEN choose_initiative_move(all_moves, c, landlord)
        ELSE IF valid_moves = {} THEN {NoCards}
        ELSE {IF Size(result) > 0 /\ ai_is_valid_play(result, table) THEN result ELSE NoCards :
                 result \in choose_follow_move(valid_moves, table, c, landlord)}

----------------------------------------------------------------------------
(* inputs: card lists drawn from the top of the rank order of one deck *)

\* number of ranks below 2 a classified card list draws from, and its size
ClassifySpan == 5
ClassifyMax == 12

\* the two plays of a comparison: long plays over few ranks, short plays
\* over enough ranks for a straight
PlaySpan == 2
PlayMax == 10
ShortSpan == 5
ShortMax == 5

\* the card lists drawn from the span ranks under 2, from 2 and the jokers
BagsOver(span, maxn) == BagsFrom(Deck, TWO - span, maxn)

\* the legal plays among the long and the short card lists
Plays(span, maxn, sspan, smaxn) ==
    {c \in BagsOver(span, maxn) \cup BagsOver(sspan, smaxn) : classify_cards(c) # NoPlay}

InDeck(c) == SubBag(c, Deck)

NoRet == [play |-> NoPlay, compare |-> 0, valid |-> FALSE, moves |-> {}, move |-> NoCards,
          weight |-> 0]

NoGame == [phase |-> "NONE"]

----------------------------------------------------------------------------
(* the classifier applied to a card list *)

InitClassify ==
    /\ cards \in BagsOver(ClassifySpan, ClassifyMax)
    /\ table_cards = NoCards
    /\ is_landlord = FALSE
    /\ pc = "input"
    /\ ret = NoRet
    /\ game = NoGame

ClassifyCards ==
    /\ pc = "input"
    /\ pc' = "classify_cards"
    /\ ret' = [ret EXCEPT !.play = classify_cards(cards)]
    /\ UNCHANGED <<cards, table_cards, is_landlord, game>>

NextClassify == ClassifyCards

SpecClassify == InitClassify /\ [][NextClassify]_vars

----------------------------------------------------------------------------
(* the comparator and the two validity checks applied to a proposed play   *)
(* and a standing play that lie in one deck together                       *)

InitCompare ==
    /\ \E P \in {Plays(PlaySpan, PlayMax, ShortSpan, ShortMax)} :
          /\ cards \in P
          /\ table_cards \in P
    /\ InDeck(Plus(cards, table_cards))
    /\ is_landlord = FALSE
    /\ pc = "input"
    /\ ret = NoRet
    /\ game = NoGame

ComparePlay ==
    /\ pc = "input"
    /\ pc' = "_compare_play"
    /\ ret' = [ret EXCEPT !.compare = compare_play(cards, table_cards)]
    /\ UNCHANGED <<cards, table_cards, is_landlord, game>>

GameIsValidPlay ==
    /\ pc = "input"
    /\ pc' = "game.is_valid_play"
    /\ ret' = [ret EXCEPT !.valid = game_is_valid_play(cards, table_cards)]
    /\ UNCHANGED <<cards, table_cards, is_landlord, game>>

AiIsValidPlay ==
    /\ pc = "input"
    /\ pc' = "ai.is_valid_play"
    /\ ret' = [ret EXCEPT !.valid = ai_is_valid_play(cards, table_cards)]
    /\ UNCHANGED <<cards, table_cards, is_landlord, game>>

NextCompare == ComparePlay \/ GameIsValidPlay \/ AiIsValidPlay

SpecCompare == InitCompare /\ [][NextCompare]_vars

----------------------------------------------------------------------------
(* shapes read off the cards, for stating the properties *)

IsRocket(c) == Size(c) = 2 /\ c[SMALL_JOKER] = 1 /\ c[BIG_JOKER] = 1
IsBomb(c) == Size(c) = 4 /\ \E v \in CardValue : c[v] = 4
BombRank(c) == CHOOSE v \in CardValue : c[v] = 4

\* exactly m >= 2 trios of consecutive ranks below 2 and nothing else
IsTrioRun(c) ==
    /\ Cardinality(Values(c)) >= 2
    /\ \A v \in Values(c) : c[v] = 3 /\ v < TWO
    /\ Max(Values(c)) - Min(Values(c)) + 1 = Cardinality(Values(c))

\* the trio run of a plane with wings: the run_len ranks ending at its key
PlaneRun(play, n) ==
    LET run_len == IF play[1] = "PLANE_SINGLE" THEN n \div 4 ELSE n \div 5
    IN  (play[2] - run_len + 1)..play[2]

Classified == pc = "classify_cards"

\* C6: cards that are exactly m consecutive trios below 2 classify as Plane
\* keyed by the highest trio rank, for every m
C6_TrioRunIsPlane ==
    (Classified /\ IsTrioRun(cards)) => ret.play = <<"PLANE", Max(Values(cards))>>

\* C7: PlaneSingle and PlanePair are returned only when no wing card has a
\* rank of the trio run, i.e. every rank of the run is held exactly three times
C7_WingsAvoidRun ==
    (Classified /\ ret.play[1] \in {"PLANE_SINGLE", "PLANE_PAIR"})
        => \A v \in PlaneRun(ret.play, Size(cards)) : cards[v] = 3

\* C8: a Straight or PairStraight holds no 2 and no joker; a Straight is at
\* least 5 cards of distinct consecutive ranks, a PairStraight at least 3
\* consecutive ranks of exactly two cards each
C8_RunsExcludeTwoAndJokers ==
    Classified =>
        /\ ret.play[1] \in {"STRAIGHT", "PAIR_STRAIGHT"}
              => /\ cards[TWO] = 0 /\ cards[SMALL_JOKER] = 0 /\ cards[BIG_JOKER] = 0
                 /\ Max(Values(cards)) - Min(Values(cards)) + 1 = Cardinality(Values(cards))
                 /\ ret.play[2] = Max(Values(cards))
        /\ ret.play[1] = "STRAIGHT"
              => Size(cards) >= 5 /\ \A v \in Values(cards) : cards[v] = 1
        /\ ret.play[1] = "PAIR_STRAIGHT"
              => Cardinality(Values(cards)) >= 3 /\ \A v \in Values(cards) : cards[v] = 2

C8_Witness ==
    Classified /\ ret.play = <<"PAIR_STRAIGHT", ACE>> /\ Size(cards) = 6

\* C9: a play compared with an identical copy of itself is NotGreater (-1)
C9_SelfCompareNotGreater ==
    (pc = "_compare_play" /\ cards = table_cards) => ret.compare = -1

Beats == IF pc = "_compare_play" THEN ret.compare = 1 ELSE ret.valid

\* C10: the Rocket beats every other play and nothing beats it; a Bomb beats
\* every play that is neither Bomb nor Rocket, and a Bomb exactly when its
\* rank is higher; for _compare_play and both is_valid_play checks
C10_RocketAndBombOrder ==
    pc # "input" =>
        /\ (IsRocket(cards) /\ ~IsRocket(table_cards)) => Beats
        /\ IsRocket(table_cards) => ~Beats
        /\ (IsBomb(cards) /\ ~IsBomb(table_cards) /\ ~IsRocket(table_cards)) => Beats
        /\ (IsBomb(cards) /\ IsBomb(table_cards))
              => (Beats <=> BombRank(cards) > BombRank(table_cards))

C10_Witness ==
    /\ pc = "ai.is_valid_play"
    /\ IsBomb(cards) /\ IsBomb(table_cards)
    /\ BombRank(cards) > BombRank(table_cards)
    /\ ret.valid

Ordinary(c) == classify_cards(c)[1] \notin {"NONE", "BOMB", "ROCKET"}

\* C11: for two legal plays that are neither bomb nor rocket, _compare_play
\* returns 0 and DoudizhuGame.is_valid_play rejects when the shapes or the
\* card counts differ; with equal shape and count the challenger wins
\* exactly when its key is strictly higher
C11_OrdinaryPlaysCompare ==
    (/\ pc \in {"_compare_play", "game.is_valid_play"}
     /\ Ordinary(cards) /\ Ordinary(table_cards))
    => IF \/ classify_cards(cards)[1] # classify_cards(table_cards)[1]
          \/ Size(cards) # Size(table_cards)
       THEN /\ pc = "_compare_play" => ret.compare = 0
            /\ pc = "game.is_valid_play" => ~ret.valid
       ELSE Beats <=> classify_cards(cards)[2] > classify_cards(table_cards)[2]

C11_Witness ==
    /\ pc = "game.is_valid_play"
    /\ Ordinary(cards) /\ Ordinary(table_cards)
    /\ classify_cards(cards)[1] = classify_cards(table_cards)[1]
    /\ Size(cards) # Size(table_cards)
    /\ classify_cards(cards)[2] > classify_cards(table_cards)[2]
    /\ ~ret.valid

----------------------------------------------------------------------------
(* the two move enumerators applied to a hand *)

MovesSpan == 3
MovesMax == 8

InitMoves ==
    /\ cards \in BagsOver(MovesSpan, MovesMax)
    /\ table_cards = NoCards
    /\ is_landlord = FALSE
    /\ pc = "input"
    /\ ret = NoRet
    /\ game = NoGame

AiGetAllPlayableMoves ==
    /\ pc = "input"
    /\ pc' = "ai.get_all_playable_moves"
    /\ ret' = [ret EXCEPT !.moves = get_all_playable_moves(cards)]
    /\ UNCHANGED <<cards, table_cards, is_landlord, game>>

PlayerGetAllPlayableMoves ==
    /\ pc = "input"
    /\ pc' = "player.get_all_playable_moves"
    /\ ret' = [ret EXCEPT !.moves = player_get_all_playable_moves(cards)]
    /\ UNCHANGED <<cards, table_cards, is_landlord, game>>

NextMoves == AiGetAllPlayableMoves \/ PlayerGetAllPlayableMoves

SpecMoves == InitMoves /\ [][NextMoves]_vars

Enumerated == pc \in {"ai.get_all_playable_moves", "player.get_all_playable_moves"}

\* C4: every non-empty move of the enumerators is a legal shape for classify_cards
C4_MovesAreLegalShapes ==
    Enumerated => \A m \in ret.moves : Size(m) > 0 => classify_cards(m) # NoPlay

\* C5: every part of the hand that classify_cards accepts is among the
\* enumerated moves (as a multiset of ranks)
C5_MovesAreExhaustive ==
    Enumerated =>
        \A s \in BagsFrom(cards, THREE, Size(cards)) :
            classify_cards(s) # NoPlay => s \in ret.moves

----------------------------------------------------------------------------
(* DoudizhuGame.get_ai_move: get_best_move applied to a sorted hand, the   *)
(* standing play on the table (none when leading) and the role             *)

HandSpan == 3
HandMax == 7
TableWidth == 2
TableMax == 6

\* the legal plays of at most maxn cards over the width lowest ranks of the span
TablePlays(span, width, maxn) ==
    LET lo == TWO - span
        low_cards == [v \in CardValue |-> IF v \in lo..(lo + width - 1) THEN Deck[v] ELSE 0]
    IN  {c \in BagsFrom(low_cards, lo, maxn) : classify_cards(c) # NoPlay}

Init ==
    /\ cards \in BagsOver(HandSpan, HandMax) \ {NoCards}
    /\ table_cards \in TablePlays(HandSpan, TableWidth, TableMax) \cup {NoCards}
    /\ InDeck(Plus(cards, table_cards))
    /\ is_landlord \in BOOLEAN
    /\ pc = "input"
    /\ ret = NoRet
    /\ game = NoGame

GetBestMove ==
    /\ pc = "input"
    /\ \E move \in get_best_move(cards, table_cards, is_landlord) :
          ret' = [ret EXCEPT !.move = move]
    /\ pc' = "get_best_move"
    /\ UNCHANGED <<cards, table_cards, is_landlord, game>>

Next == GetBestMove

Spec == Init /\ [][Next]_vars

Lead == pc = "get_best_move" /\ Size(table_cards) = 0
Follow == pc = "get_best_move" /\ Size(table_cards) > 0

\* C1: when following a standing play, the move of get_best_move is empty
\* or is part of the hand and accepted by DoudizhuGame.is_valid_play
\* against the standing play
C1_FollowIsAcceptedByGame ==
    Follow => \/ Size(ret.move) = 0
              \/ SubBag(ret.move, cards) /\ game_is_valid_play(ret.move, table_cards)

\* C2: when leading with a hand that is one legal combination, the move of
\* get_best_move is the whole hand
C2_LeadPlaysWholeHand ==
    (Lead /\ classify_cards(cards) # NoPlay) => ret.move = cards

\* C3: when _should_use_bomb is false for every bomb of the hand, the move
\* of get_best_move is not a bomb
C3_GateWithholdsBomb ==
    (/\ pc = "get_best_move"
     /\ \A v \in CardValue :
           cards[v] = 4 => ~should_use_bomb(Of(v, 4), cards, is_landlord))
    => ~IsBomb(ret.move)

----------------------------------------------------------------------------
(* get_best_move when leading: no standing play on the table *)

LeadSpan == 3
LeadMax == 8

InitLead ==
    /\ cards \in BagsOver(LeadSpan, LeadMax) \ {NoCards}
    /\ table_cards = NoCards
    /\ is_landlord \in BOOLEAN
    /\ pc = "input"
    /\ ret = NoRet
    /\ game = NoGame

LeadBestMove ==
    /\ pc = "input"
    /\ Size(table_cards) = 0
    /\ \E move \in get_best_move(cards, table_cards, is_landlord) :
          ret' = [ret EXCEPT !.move = move]
    /\ pc' = "get_best_move"
    /\ UNCHANGED <<cards, table_cards, is_landlord, game>>

NextLead == LeadBestMove

SpecLead == InitLead /\ [][NextLead]_vars

\* C16: leading with a non-empty hand, the move of get_best_move is not
\* empty and all its cards come from the hand
C16_LeadNeverPasses ==
    (Lead /\ Size(cards) > 0) => Size(ret.move) > 0 /\ SubBag(ret.move, cards)

C16_Witness ==
    /\ Lead /\ Size(cards) = 8
    /\ Size(ret.move) = 6 /\ SubBag(ret.move, cards)

\* C17: leading with both jokers in hand, get_best_move returns the rocket
\* when the hand is exactly the two jokers, and with further cards in hand
\* it returns the rocket only if the whole hand is not one legal combination
C17_RocketOnlyWithoutFinish ==
    (Lead /\ cards[SMALL_JOKER] = 1 /\ cards[BIG_JOKER] = 1)
    => /\ Size(cards) = 2 => IsRocket(ret.move)
       /\ (Size(cards) > 2 /\ IsRocket(ret.move)) => classify_cards(cards) = NoPlay

----------------------------------------------------------------------------
(* _should_use_bomb applied to a bomb of the hand *)

GateSpan == 2
GateMax == 9

InitGate ==
    /\ cards \in {c \in BagsOver(GateSpan, GateMax) : \E v \in CardValue : c[v] = 4}
    /\ table_cards = NoCards
    /\ is_landlord \in BOOLEAN
    /\ pc = "input"
    /\ ret = NoRet
    /\ game = NoGame

ShouldUseBomb ==
    /\ pc = "input"
    /\ \E v \in CardValue :
          /\ cards[v] = 4
          /\ ret' = [ret EXCEPT !.move = Of(v, 4),
                                !.valid = should_use_bomb(Of(v, 4), cards, is_landlord)]
    /\ pc' = "_should_use_bomb"
    /\ UNCHANGED <<cards, table_cards, is_landlord, game>>

NextGate == ShouldUseBomb

SpecGate == InitGate /\ [][NextGate]_vars

\* C18: for a landlord's bomb, _should_use_bomb is true whenever another
\* four of a kind remains in the hand after the play and at most 5 cards
\* would remain
C18_LandlordSecondBomb ==
    (/\ pc = "_should_use_bomb"
     /\ is_landlord
     /\ Size(cards) - 4 <= 5
     /\ \E v \in CardValue : Minus(cards, ret.move)[v] = 4)
    => ret.valid

----------------------------------------------------------------------------
(* the plane-with-wings enumerators applied to a hand *)

WingSpan == 4
WingMax == 12

\* Player._get_plane_with_wings repeats the statements of
\* DoudizhuAI._get_plane_with_wings on self.cards
player_get_plane_with_wings(c) == get_plane_with_wings(c)

InitWings ==
    /\ cards \in BagsOver(WingSpan, WingMax)
    /\ table_cards = NoCards
    /\ is_landlord = FALSE
    /\ pc = "input"
    /\ ret = NoRet
    /\ game = NoGame

AiGetPlaneWithWings ==
    /\ pc = "input"
    /\ pc' = "ai._get_plane_with_wings"
    /\ ret' = [ret EXCEPT !.moves = {e.move : e \in get_plane_with_wings(cards)}]
    /\ UNCHANGED <<cards, table_cards, is_landlord, game>>

PlayerGetPlaneWithWings ==
    /\ pc = "input"
    /\ pc' = "player._get_plane_with_wings"
    /\ ret' = [ret EXCEPT !.moves = {e.move : e \in player_get_plane_with_wings(cards)}]
    /\ UNCHANGED <<cards, table_cards, is_landlord, game>>

NextWings == AiGetPlaneWithWings \/ PlayerGetPlaneWithWings

SpecWings == InitWings /\ [][NextWings]_vars

\* the runs of m >= 2 consecutive ranks the hand holds at least three times
TrioRuns(c) ==
    {run \in SUBSET get_repeated_values(c, 3) :
        /\ Cardinality(run) >= 2
        /\ run = Min(run)..Max(run)}

\* C19: for each contiguous trio run of length m of the hand and every
\* choice of m distinct ranks among the other ranks held at least twice,
\* the enumerator returns the run with those pairs
C19_EveryPairChoice ==
    pc \in {"ai._get_plane_with_wings", "player._get_plane_with_wings"}
    => \A run \in TrioRuns(cards) :
          \A pairs \in SUBSET (get_repeated_values(cards, 2) \ run) :
             Cardinality(pairs) = Cardinality(run)
             => Plus(BagOf(run, 3), BagOf(pairs, 2)) \in ret.moves

----------------------------------------------------------------------------
(* get_best_move when following with a short hand *)

EndSpan == 3
EndMax == 5
EndWidth == 2
EndTableMax == 5

InitEndgame ==
    /\ cards \in BagsOver(EndSpan, EndMax) \ {NoCards}
    /\ table_cards \in TablePlays(EndSpan, EndWidth, EndTableMax)
    /\ InDeck(Plus(cards, table_cards))
    /\ is_landlord \in BOOLEAN
    /\ pc = "input"
    /\ ret = NoRet
    /\ game = NoGame

FollowBestMove ==
    /\ pc = "input"
    /\ Size(table_cards) > 0
    /\ \E move \in get_best_move(cards, table_cards, is_landlord) :
          ret' = [ret EXCEPT !.move = move]
    /\ pc' = "get_best_move"
    /\ UNCHANGED <<cards, table_cards, is_landlord, game>>

NextEndgame == FollowBestMove

SpecEndgame == InitEndgame /\ [][NextEndgame]_vars

\* the enumerated moves that take the whole hand and beat the standing play,
\* for DoudizhuAI.is_valid_play or for DoudizhuGame.is_valid_play
EmptyingCandidates ==
    {m \in get_all_playable_moves(cards) :
        /\ Size(m) > 0 /\ Size(m) = Size(cards)
        /\ ai_is_valid_play(m, table_cards) \/ game_is_valid_play(m, table_cards)}

\* C20: following with a hand of at most 5 cards, when some candidate that
\* beats the standing play empties the hand, the move of get_best_move
\* empties the hand
C20_EndgameTakesFinish ==
    (Follow /\ Size(cards) <= 5 /\ EmptyingCandidates # {}) => ret.move = cards

C20_Witness ==
    /\ Follow /\ Size(cards) <= 5
    /\ EmptyingCandidates # {}
    /\ \E m \in get_all_playable_moves(cards) :
          Size(m) > 0 /\ Size(m) < Size(cards) /\ ai_is_valid_play(m, table_cards)
    /\ ret.move = cards

(***************************************************************************)
(* The game object (doudizhu_game.py).  Here a card is the Card dataclass  *)
(* itself, a suit and a value: two cards are equal when both agree.        *)
(***************************************************************************)

Suit == <<"SPADE", "HEART", "DIAMOND", "CLUB">>

\* sort_cards orders equal values by the suit's character: U+2660 spade,
\* U+2663 club, U+2665 heart, U+2666 diamond; a joker's suit is None, key 0.
SuitKey(s) ==
    CASE s = "SPADE" -> 1
      [] s = "CLUB" -> 2
      [] s = "HEART" -> 3
      [] s = "DIAMOND" -> 4
      [] OTHER -> 0

Card(s, v) == [suit |-> s, value |-> v]

\* Deck._initialize_deck: suit by suit the values THREE..TWO, then the jokers.
initialize_deck ==
    [i \in 1..54 |->
        IF i <= 52 THEN Card(Suit[((i - 1) \div 13) + 1], THREE + ((i - 1) % 13))
        ELSE Card("None", SMALL_JOKER + (i - 53))]

MaxShuffle == 2

\* Deck.shuffle: random.shuffle can produce every order; the orders followed
\* here are the deck read at a stride coprime to 54, the first MaxShuffle of
ShuffleStrides == <<11, 7, 1, 5, 13, 17>>

shuffle(deck) ==
    {[i \in 1..54 |-> deck[(((i - 1) * ShuffleStrides[n]) % 54) + 1]] : n \in 1..MaxShuffle}

\* Deck.deal with the pops left out: the same cards are handed out again.
deal_without_pop(deck, num) ==
    [dealt |-> {deck[i] : i \in (Len(deck) - num + 1)..Len(deck)},
     rest  |-> deck]

\* Deck.deal: pops num cards from the end of the list.
deal(deck, num) ==
    [dealt |-> {deck[i] : i \in (Len(deck) - num + 1)..Len(deck)},
     rest  |-> SubSeq(deck, 1, Len(deck) - num)]

CardLess(a, b) ==
    \/ a.value < b.value
    \/ a.value = b.value /\ SuitKey(a.suit) < SuitKey(b.suit)

\* Player.sort_cards: a hand is kept as the set of its cards, and this is
\* the list the player object holds.
RECURSIVE sort_cards(_)
sort_cards(S) ==
    IF S = {} THEN <<>>
    ELSE LET first == CHOOSE x \in S : \A y \in S : ~CardLess(y, x)
         IN  <<first>> \o sort_cards(S \ {first})

\* the ranks of a list of cards, as the rank counts the rules work on
RanksOf(cs) == [v \in CardValue |-> Cardinality({i \in DOMAIN cs : cs[i].value = v})]

\* Player.can_play
can_play(hand, cs) ==
    IF Len(cs) = 0 THEN TRUE ELSE \A i \in DOMAIN cs : cs[i] \in hand

\* Player.remove_cards: removes card by card and stops at the first card
\* that is no longer in the hand, keeping the removals made so far.
RECURSIVE remove_cards(_, _)
remove_cards(hand, cs) ==
    IF Len(cs) = 0 THEN [cards |-> hand, ok |-> TRUE]
    ELSE IF Head(cs) \in hand THEN remove_cards(hand \ {Head(cs)}, Tail(cs))
    ELSE [cards |-> hand, ok |-> FALSE]

PlayerIds == 0..2

NewPlayer(id) == [cards |-> {}, is_landlord |-> FALSE, is_ai |-> id # 0]

\* a dict as a function on the keys it holds
EmptyDict == [k \in {} |-> FALSE]

Put(d, k, x) == [j \in (DOMAIN d) \cup {k} |-> IF j = k THEN x ELSE d[j]]

\* DoudizhuGame._init_game for one result of the shuffle and of randint(0, 2).
\* DoudizhuAI._seen_cards is a class attribute that _init_game does not touch.
init_game(deck, landlord_id, seen_cards) ==
    LET d0 == deal(deck, 17)
        d1 == deal(d0.rest, 17)
        d2 == deal(d1.rest, 17)
        trump == deal(d2.rest, 3)
        dealt == <<d0.dealt, d1.dealt, d2.dealt>>
    IN  [phase |-> "PLAYING",
         players |-> [id \in PlayerIds |->
             [NewPlayer(id) EXCEPT
                 !.cards = IF id = landlord_id THEN dealt[id + 1] \cup trump.dealt
                           ELSE dealt[id + 1],
                 !.is_landlord = (id = landlord_id)]],
         current_player_id |-> landlord_id,
         last_player_id |-> -1,
         trump_cards |-> trump.dealt,
         table_cards |-> <<>>,
         player_table_cards |-> EmptyDict,
         player_passed |-> EmptyDict,
         pass_count |-> 0,
         selected_cards |-> {},
         game_message |-> "",
         seen_cards |-> seen_cards]

\* DoudizhuGame.is_valid_play on lists of cards
is_valid_play(cs, last_cards) == game_is_valid_play(RanksOf(cs), RanksOf(last_cards))

\* the turn left with the player who moved
NextPlayerStays(g) == g.current_player_id

NextPlayer(g) == (g.current_player_id + 1) % 3

\* DoudizhuGame.show_message: the message replaces the one on display
show_message(g, msg) == [g EXCEPT !.game_message = msg]

\* DoudizhuGame._determine_winner: the message names the side that won
determine_winner(g) ==
    LET landlord == CHOOSE id \in PlayerIds : g.players[id].is_landlord
    IN  IF g.players[landlord].cards = {}
        THEN show_message(g, "landlord wins")
        ELSE show_message(g, "farmers win")

\* DoudizhuGame.play_card: the object after the call and the value returned.
play_card(g, player_id, cs) ==
    LET player == g.players[player_id]
        passes == g.pass_count + 1
        removed == remove_cards(player.cards, cs)
        \* remove_cards works on the player's own list, whatever it returns
        taken == [g EXCEPT !.players[player_id].cards = removed.cards]
    IN  IF Len(cs) = 0 THEN
            [obj |-> IF passes >= 3
                     THEN [g EXCEPT !.table_cards = <<>>,
                                    !.player_table_cards = EmptyDict,
                                    !.player_passed = [id \in PlayerIds |-> FALSE],
                                    !.pass_count = 0,
                                    !.current_player_id = NextPlayer(g)]
                     ELSE [g EXCEPT !.player_passed = Put(g.player_passed, player_id, TRUE),
                                    !.pass_count = passes,
                                    !.current_player_id = NextPlayer(g)],
             ok |-> TRUE]
        ELSE IF ~can_play(player.cards, cs) THEN [obj |-> g, ok |-> FALSE]
        ELSE IF ~is_valid_play(cs, g.table_cards) THEN [obj |-> g, ok |-> FALSE]
        ELSE IF removed.ok THEN
            LET put == [taken EXCEPT
                        !.table_cards = cs,
                        !.player_table_cards = Put(g.player_table_cards, player_id, cs),
                        !.player_passed = Put(g.player_passed, player_id, FALSE),
                        !.pass_count = 0,
                        !.last_player_id = player_id,
                        !.current_player_id = NextPlayer(g)]
            IN  [obj |-> IF removed.cards = {}
                         THEN determine_winner([put EXCEPT !.phase = "GAME_OVER"])
                         ELSE put,
                 ok |-> TRUE]
        ELSE [obj |-> taken, ok |-> FALSE]

\* skip_turn without its reset of the table
skip_turn_without_reset(g) ==
    [g EXCEPT !.player_passed = Put(g.player_passed, g.current_player_id, TRUE),
              !.pass_count = g.pass_count + 1,
              !.current_player_id = NextPlayer(g)]

\* DoudizhuGame.skip_turn
skip_turn(g) ==
    IF g.pass_count + 1 >= 2
    THEN [g EXCEPT !.table_cards = <<>>,
                   !.player_table_cards = EmptyDict,
                   !.player_passed = EmptyDict,
                   !.pass_count = 0,
                   !.last_player_id = -1,
                   !.current_player_id = NextPlayer(g)]
    ELSE [g EXCEPT !.player_passed = Put(g.player_passed, g.current_player_id, TRUE),
                   !.pass_count = g.pass_count + 1,
                   !.current_player_id = NextPlayer(g)]

\* DoudizhuGame._try_play_cards: the selected indices, in increasing order,
\* name the cards of the human's hand.
try_play_cards(g) ==
    LET hand == sort_cards(g.players[0].cards)
        picked == {hand[i + 1] : i \in g.selected_cards}
        cards_to_play == sort_cards(picked)
        played == play_card(g, 0, cards_to_play)
    IN  IF g.selected_cards = {}
        THEN [obj |-> show_message(g, "select cards first"), ok |-> FALSE]
        ELSE IF is_valid_play(cards_to_play, g.table_cards) THEN
            IF played.ok
            THEN [obj |-> show_message([played.obj EXCEPT !.selected_cards = {}], "play ok"),
                  ok |-> TRUE]
            ELSE played
        ELSE [obj |-> show_message(g, "play invalid"), ok |-> FALSE]

\* The cards a move of the AI is made of: the enumerator builds every group
\* of a rank from the first cards of that rank in the hand's order.
CardsOfMove(hand, move) ==
    LET ofRank(v) == {c \in hand : c.value = v}
        firstOf(v) == SubSeq(sort_cards(ofRank(v)), 1, move[v])
    IN  sort_cards(UNION {{firstOf(v)[i] : i \in 1..move[v]} : v \in Values(move)})

\* DoudizhuGame.get_ai_move: the moves get_best_move can return for a player
get_ai_move(g, player_id) ==
    LET player == g.players[player_id]
    IN  {CardsOfMove(player.cards, move) :
            move \in get_best_move(RanksOf(sort_cards(player.cards)),
                                   RanksOf(g.table_cards), player.is_landlord)}

(***************************************************************************)
(* SpecGame: the game as its event loop runs it (DoudizhuGame.run and      *)
(* handle_mouse_click).  game.obj is the DoudizhuGame object with the      *)
(* accumulator of the AI; game.played is a history of the cards put on the *)
(* table by accepted plays since the last deal; game.clicks counts the     *)
(* clicks on cards and on the restart button, game.deals marks a deal      *)
(* after the first one.                                                    *)
(***************************************************************************)

MaxClicks == 2
ClickSpan == 2

Deals(seen_cards) ==
    {init_game(deck, landlord_id, seen_cards) :
        deck \in shuffle(initialize_deck), landlord_id \in PlayerIds}

Range(cs) == {cs[i] : i \in DOMAIN cs}

GameIdle ==
    /\ cards = NoCards
    /\ table_cards = NoCards
    /\ is_landlord = FALSE

InitGame ==
    /\ GameIdle
    /\ pc = "__init__"
    /\ ret = NoRet
    /\ \E g \in Deals({}) : game = [obj |-> g, played |-> {}, clicks |-> 0, deals |-> 0]

HumanTurn == game.obj.phase = "PLAYING" /\ game.obj.current_player_id = 0

\* the list _try_play_cards builds from the selected indices
cards_to_play(g) ==
    LET hand == sort_cards(g.players[0].cards)
    IN  sort_cards({hand[i + 1] : i \in g.selected_cards})

\* handle_mouse_click on a card of the human's hand: toggles its index
ClickCard ==
    /\ HumanTurn
    /\ game.clicks < MaxClicks
    /\ \E i \in 0..(ClickSpan - 1) :
          /\ i < Cardinality(game.obj.players[0].cards)
          /\ game' = [game EXCEPT
                !.obj.selected_cards = IF i \in @ THEN @ \ {i} ELSE @ \cup {i},
                !.clicks = @ + 1]
    /\ pc' = "handle_mouse_click"
    /\ ret' = NoRet
    /\ UNCHANGED <<cards, table_cards, is_landlord>>

\* handle_mouse_click on the play button
ClickPlay ==
    /\ HumanTurn
    /\ LET r == try_play_cards(game.obj)
       IN  /\ game' = [game EXCEPT
                 !.obj = r.obj,
                 !.played = IF r.ok THEN @ \cup Range(cards_to_play(game.obj)) ELSE @]
           /\ ret' = [NoRet EXCEPT !.valid = r.ok]
    /\ pc' = "_try_play_cards"
    /\ UNCHANGED <<cards, table_cards, is_landlord>>

\* handle_mouse_click on the skip button
ClickSkip ==
    /\ HumanTurn
    /\ game' = [game EXCEPT !.obj = skip_turn(game.obj)]
    /\ pc' = "skip_turn"
    /\ ret' = NoRet
    /\ UNCHANGED <<cards, table_cards, is_landlord>>

\* handle_mouse_click on the restart button after the game is over
ClickRestart ==
    /\ game.obj.phase = "GAME_OVER"
    /\ game.clicks < MaxClicks
    /\ \E g \in Deals(game.obj.seen_cards) :
          game' = [game EXCEPT !.obj = g, !.played = {}, !.deals = 1, !.clicks = @ + 1]
    /\ pc' = "_init_game"
    /\ ret' = NoRet
    /\ UNCHANGED <<cards, table_cards, is_landlord>>

\* one pass of the loop in run while an AI player is to move
AiTurn ==
    /\ game.obj.phase = "PLAYING"
    /\ game.obj.players[game.obj.current_player_id].is_ai
    /\ \E cs \in get_ai_move(game.obj, game.obj.current_player_id) :
          IF Len(cs) > 0
          THEN LET r == play_card(game.obj, game.obj.current_player_id, cs)
               IN  /\ game' = [game EXCEPT
                         !.obj = show_message(r.obj, "played"),
                         !.played = IF r.ok THEN @ \cup Range(cs) ELSE @]
                   /\ ret' = [NoRet EXCEPT !.valid = r.ok, !.move = RanksOf(cs)]
          ELSE /\ game' = [game EXCEPT !.obj = show_message(skip_turn(game.obj), "skipped")]
               /\ ret' = NoRet
    /\ pc' = "run"
    /\ UNCHANGED <<cards, table_cards, is_landlord>>

NextGame == ClickCard \/ ClickPlay \/ ClickSkip \/ ClickRestart \/ AiTurn

SpecGame == InitGame /\ [][NextGame]_vars

Hands == [id \in PlayerIds |-> game.obj.players[id].cards]

\* C12: in every reachable game state the standing play is empty or a shape
\* classify_cards accepts, whoever proposed it and also on a lead.
C12_TableIsLegalShape ==
    \/ game.obj.table_cards = <<>>
    \/ classify_cards(RanksOf(game.obj.table_cards))[1] # "NONE"

DealtNow == pc \in {"__init__", "_init_game"}

AcceptedPlay == pc' \in {"_try_play_cards", "run"} /\ ret'.valid

Conserved ==
    /\ \A p, q \in PlayerIds : p # q => Hands[p] \cap Hands[q] = {}
    /\ \A p \in PlayerIds : Hands[p] \cap game.played = {}
    /\ DealtNow =>
          /\ \A p \in PlayerIds :
                Cardinality(Hands[p]) = IF game.obj.players[p].is_landlord THEN 20 ELSE 17
          /\ UNION {Hands[p] : p \in PlayerIds} = Range(initialize_deck)
          /\ Cardinality(Range(initialize_deck)) = 54

PlayTakesItsCards ==
    AcceptedPlay =>
        LET p == game.obj.current_player_id
            put == Range(game'.obj.table_cards)
        IN  /\ put # {}
            /\ put \subseteq game.obj.players[p].cards
            /\ game'.obj.players[p].cards = game.obj.players[p].cards \ put
            /\ \A q \in PlayerIds \ {p} :
                  game'.obj.players[q].cards = game.obj.players[q].cards

\* C14: after a deal the hands hold 20, 17 and 17 cards that are together the
\* 54 distinct cards of the deck; the hands stay pairwise disjoint and
\* disjoint from the cards already played; an accepted play removes exactly
\* the played cards from the acting player's hand and changes no other hand.
C14_CardConservation == [](Conserved) /\ [][PlayTakesItsCards]_vars

C14_Witness ==
    /\ pc = "run"
    /\ ret.valid
    /\ game.obj.last_player_id \in {1, 2}
    /\ 0 \in DOMAIN game.obj.player_table_cards
    /\ Cardinality(game.played) >= 2
    /\ Len(game.obj.player_table_cards[0]) > 0

\* C15: in every reachable game state DoudizhuAI._seen_cards holds exactly
\* the ranks played since the last deal.
C15_SeenCardsArePlayedRanks ==
    game.obj.seen_cards = {c.value : c \in game.played}

(***************************************************************************)
(* SpecPlayCard: play_card called for the player to move with every short  *)
(* proposal, the empty one, cards of another hand and the same card twice  *)
(* included.  game.calls counts the calls.                                 *)
(***************************************************************************)

MaxProposal == 2
ProposalSpan == 2
MaxCalls == 2

InitPlayCard ==
    /\ GameIdle
    /\ pc = "__init__"
    /\ ret = NoRet
    /\ \E g \in Deals({}) : game = [obj |-> g, played |-> {}, calls |-> 0]

\* the first cards of the mover's hand and the first card of the next hand
ProposalCards(g) ==
    LET own == sort_cards(g.players[g.current_player_id].cards)
        other == sort_cards(g.players[NextPlayer(g)].cards)
    IN  {own[i] : i \in 1..Min({ProposalSpan, Len(own)})}
            \cup {other[i] : i \in 1..Min({1, Len(other)})}

Proposals(g) ==
    UNION {[1..n -> ProposalCards(g)] : n \in 0..MaxProposal}

PlayCard ==
    /\ game.obj.phase = "PLAYING"
    /\ game.calls < MaxCalls
    /\ \E cs \in Proposals(game.obj) :
          LET r == play_card(game.obj, game.obj.current_player_id, cs)
          IN  /\ game' = [game EXCEPT
                    !.obj = r.obj,
                    !.played = IF r.ok THEN @ \cup Range(cs) ELSE @,
                    !.calls = @ + 1]
              /\ ret' = [NoRet EXCEPT !.valid = r.ok, !.move = RanksOf(cs)]
    /\ pc' = "play_card"
    /\ UNCHANGED <<cards, table_cards, is_landlord>>

NextPlayCard == PlayCard

SpecPlayCard == InitPlayCard /\ [][NextPlayCard]_vars

\* C13: whenever play_card returns False, every hand, table_cards,
\* player_table_cards, pass_count, last_player_id, current_player_id and
\* phase are as they were before the call.
C13_RejectedPlayChangesNothing ==
    [][(pc' = "play_card" /\ ~ret'.valid) =>
          /\ \A p \in PlayerIds : game'.obj.players[p].cards = game.obj.players[p].cards
          /\ game'.obj.table_cards = game.obj.table_cards
          /\ game'.obj.player_table_cards = game.obj.player_table_cards
          /\ game'.obj.pass_count = game.obj.pass_count
          /\ game'.obj.last_player_id = game.obj.last_player_id
          /\ game'.obj.current_player_id = game.obj.current_player_id
          /\ game'.obj.phase = game.obj.phase]_vars

-----------------------------------------------------------------------------
(***************************************************************************)
(* SpecDestruction: _calculate_destruction_factor applied to a hand and a  *)
(* move taken from it.  ret.weight is the factor in twentieths.            *)
(***************************************************************************)

DestructSpan == 3
DestructMax == 6

InitDestruction ==
    /\ cards \in BagsOver(DestructSpan, DestructMax)
    /\ table_cards = NoCards
    /\ is_landlord = FALSE
    /\ pc = "input"
    /\ ret = NoRet
    /\ game = NoGame

CalculateDestructionFactor ==
    /\ pc = "input"
    /\ \E move \in get_all_playable_moves(cards) :
          /\ Size(move) > 0
          /\ ret' = [ret EXCEPT !.move = move,
                                !.weight = calculate_destruction_factor(move, cards)]
    /\ pc' = "_calculate_destruction_factor"
    /\ UNCHANGED <<cards, table_cards, is_landlord, game>>

NextDestruction == CalculateDestructionFactor

SpecDestruction == InitDestruction /\ [][NextDestruction]_vars

\* the ranks the hand holds three or four times of which the move takes
\* some cards but not all
BrokenUp(move, c) == {v \in CardValue : c[v] >= 3 /\ move[v] > 0 /\ move[v] < c[v]}

\* C21: Q2 is -1.5 for each bomb or trio of the hand that the move breaks up
\* by using only some of its cards, and 0 when the move takes no card from a
\* rank held three or four times.
C21_DestructionPenalty ==
    pc = "_calculate_destruction_factor" =>
        ret.weight = - 30 * Cardinality(BrokenUp(ret.move, cards))

-----------------------------------------------------------------------------
(***************************************************************************)
(* SpecStraights: the two _get_straights enumerators applied to a hand.    *)
(* ret.moves holds one entry for each list the enumerator appends.         *)
(***************************************************************************)

StraightSpan == 8
StraightMax == 8

\* Player._get_straights repeats the statements of DoudizhuAI._get_straights
\* on self.cards
player_get_straights(c) == get_straights(c)

InitStraights ==
    /\ cards \in BagsOver(StraightSpan, StraightMax)
    /\ table_cards = NoCards
    /\ is_landlord = FALSE
    /\ pc = "input"
    /\ ret = NoRet
    /\ game = NoGame

AiGetStraights ==
    /\ pc = "input"
    /\ pc' = "ai._get_straights"
    /\ ret' = [ret EXCEPT !.moves = get_straights(cards)]
    /\ UNCHANGED <<cards, table_cards, is_landlord, game>>

PlayerGetStraights ==
    /\ pc = "input"
    /\ pc' = "player._get_straights"
    /\ ret' = [ret EXCEPT !.moves = player_get_straights(cards)]
    /\ UNCHANGED <<cards, table_cards, is_landlord, game>>

NextStraights == AiGetStraights \/ PlayerGetStraights

SpecStraights == InitStraights /\ [][NextStraights]_vars

\* the maximal runs a..b of consecutive ranks below 2 the hand holds
MaximalRuns(c) ==
    {r \in (THREE..ACE) \X (THREE..ACE) :
        /\ r[1] <= r[2]
        /\ \A v \in r[1]..r[2] : c[v] > 0
        /\ r[1] = THREE \/ c[r[1] - 1] = 0
        /\ r[2] = ACE \/ c[r[2] + 1] = 0}

\* one card of each rank a..(a + n - 1)
StraightFrom(a, n) == BagOf(a..(a + n - 1), 1)

Straights == pc \in {"ai._get_straights", "player._get_straights"}

\* C22: for each maximal run of k consecutive ranks below 2 of the hand and
\* each length n from 5 to k the enumerator returns k - n + 1 straights of
\* length n, one per start, and it returns nothing else.
C22_OneStraightPerWindow ==
    Straights =>
        /\ \A r \in MaximalRuns(cards) : \A n \in 5..(r[2] - r[1] + 1) :
              /\ \A a \in r[1]..(r[2] - n + 1) :
                    Cardinality({e \in ret.moves : e.move = StraightFrom(a, n)}) = 1
              /\ Cardinality({e \in ret.moves :
                                 /\ Size(e.move) = n
                                 /\ \A v \in Values(e.move) : v \in r[1]..r[2]})
                    = (r[2] - r[1] + 1) - n + 1
        /\ \A e \in ret.moves :
              \E r \in MaximalRuns(cards) : \E n \in 5..(r[2] - r[1] + 1) :
                 \E a \in r[1]..(r[2] - n + 1) : e.move = StraightFrom(a, n)

C22_Witness ==
    /\ pc = "player._get_straights"
    /\ cards[TWO] > 0 /\ cards[ACE] = 2
    /\ \E r \in MaximalRuns(cards) : r[2] - r[1] + 1 = 6
    /\ Cardinality(ret.moves) = 3

-----------------------------------------------------------------------------
(***************************************************************************)
(* SpecRunFair: the loop of run with a human who passes at each own turn.  *)
(* The loop goes on: the human's click is eventually made, and a pass of   *)
(* the loop that can change the state is eventually made.                  *)
(***************************************************************************)

NextRun == AiTurn \/ ClickSkip

\* a pass of the loop for an AI player can change the state
AiTurnChanges ==
    /\ game.obj.phase = "PLAYING"
    /\ game.obj.players[game.obj.current_player_id].is_ai
    /\ \E cs \in get_ai_move(game.obj, game.obj.current_player_id) :
          \/ Len(cs) = 0
          \/ show_message(play_card(game.obj, game.obj.current_player_id, cs).obj,
                          "played") # game.obj
          \/ pc # "run"
          \/ ret # [NoRet EXCEPT !.move = RanksOf(cs)]

\* weak fairness of the AI's pass of the loop, with its enabling condition
\* written out
LoopGoesOn == []<>(~AiTurnChanges) \/ []<><<AiTurn>>_vars

SpecRunFair == InitGame /\ [][NextRun]_vars /\ WF_vars(ClickSkip) /\ LoopGoesOn

AiToMove(p) == game.obj.phase = "PLAYING" /\ game.obj.current_player_id = p

\* C23: whenever the phase is PLAYING and an AI player is to move, that
\* turn completes: the move is accepted or the AI passes, and the turn goes
\* to the next player.
C23_AiTurnCompletes ==
    \A p \in {1, 2} : AiToMove(p) ~> ~AiToMove(p)

-----------------------------------------------------------------------------
(* the tricks of the game under SpecGame *)

\* a pass made through skip_turn, by the human's click or by the loop
SkipStep == pc' = "skip_turn" \/ (pc' = "run" /\ ret' = NoRet)

SecondPassResets ==
    (SkipStep /\ game.obj.table_cards # <<>> /\ game.obj.pass_count = 1) =>
        /\ game'.obj.table_cards = <<>>
        /\ game'.obj.pass_count = 0
        /\ game'.obj.last_player_id = -1
        /\ game'.obj.current_player_id = game.obj.last_player_id

StandingPlayHasOwner ==
    /\ game.obj.table_cards = <<>> <=> game.obj.last_player_id = -1
    /\ game.obj.table_cards # <<>> =>
          game.obj.current_player_id # game.obj.last_player_id

\* C24: when a play by P is followed by passes of both other players the
\* table is cleared, pass_count is 0, last_player_id is reset and P is to
\* move; the player to move never owns the standing play, and table_cards
\* is empty exactly when last_player_id is -1.
C24_TrickReset == [](StandingPlayHasOwner) /\ [][SecondPassResets]_vars

C24_Witness ==
    /\ pc = "skip_turn"
    /\ game.played # {}
    /\ game.obj.table_cards = <<>>
    /\ game.obj.pass_count = 0
    /\ game.obj.last_player_id = -1
    /\ game.obj.current_player_id \in {1, 2}
    /\ Cardinality(Hands[game.obj.current_player_id]) < 17

-----------------------------------------------------------------------------
(***************************************************************************)
(* SpecPass: plays and passes of the player to move, the passes made       *)
(* through play_card with an empty list or through skip_turn.              *)
(***************************************************************************)

SkipTurn ==
    /\ game.obj.phase = "PLAYING"
    /\ game.calls < MaxCalls
    /\ game' = [game EXCEPT !.obj = skip_turn(game.obj), !.calls = @ + 1]
    /\ pc' = "skip_turn"
    /\ ret' = NoRet
    /\ UNCHANGED <<cards, table_cards, is_landlord>>

NextPass == PlayCard \/ SkipTurn

SpecPass == InitPlayCard /\ [][NextPass]_vars

\* what a pass leaves behind
AfterPass(g) ==
    <<g.table_cards, g.pass_count, g.last_player_id, g.player_passed, g.current_player_id>>

PassedByPlayCard == pc' = "play_card" /\ ret'.valid /\ Size(ret'.move) = 0

\* C25: from the same state a pass through play_card(player, []) and a pass
\* through skip_turn() leave the same table_cards, pass_count,
\* last_player_id, pass flags and current_player_id.
C25_PassesAgree ==
    [][/\ PassedByPlayCard => AfterPass(game'.obj) = AfterPass(skip_turn(game.obj))
       /\ pc' = "skip_turn" =>
             AfterPass(game'.obj)
                = AfterPass(play_card(game.obj, game.obj.current_player_id, <<>>).obj)]_vars

-----------------------------------------------------------------------------
(***************************************************************************)
(* SpecAgree: the AI's reading of a legal play and of a pair of legal      *)
(* plays next to the game's.                                               *)
(***************************************************************************)

AnalyzePlay ==
    /\ pc = "input"
    /\ pc' = "_analyze_play"
    /\ ret' = [ret EXCEPT !.play = analyze_play(cards)]
    /\ UNCHANGED <<cards, table_cards, is_landlord, game>>

NextAgree == AnalyzePlay \/ AiIsValidPlay \/ GameIsValidPlay

SpecAgree == InitCompare /\ [][NextAgree]_vars

\* C26: for every card list classify_cards accepts _analyze_play returns the
\* same shape and key rank, and for every pair of legal plays the AI's
\* is_valid_play answers as the game's is_valid_play.
C26_ClassifiersAgree ==
    /\ pc = "_analyze_play" => ret.play = classify_cards(cards)
    /\ pc = "ai.is_valid_play" => ret.valid = game_is_valid_play(cards, table_cards)
    /\ pc = "game.is_valid_play" => ret.valid = ai_is_valid_play(cards, table_cards)

-----------------------------------------------------------------------------
(* the order of the turns under SpecGame *)

\* a proposal that play_card, or _try_play_cards before it, turned down
RejectedPlay ==
    \/ pc' = "_try_play_cards" /\ ~ret'.valid
    \/ pc' = "run" /\ ret' # NoRet /\ ~ret'.valid

TurnAdvances == game'.obj.current_player_id = (game.obj.current_player_id + 1) % 3

TurnInRange ==
    /\ game.obj.current_player_id \in 0..2
    /\ game.obj.pass_count \in 0..1

TurnStep ==
    /\ AcceptedPlay => TurnAdvances /\ game'.obj.pass_count = 0
    /\ SkipStep => TurnAdvances
    /\ RejectedPlay => game'.obj.current_player_id = game.obj.current_player_id

\* C27: current_player_id is always 0, 1 or 2; an accepted play and a pass
\* advance it by one seat modulo 3, a rejected play leaves it unchanged;
\* pass_count is 0 after an accepted play and never above 1 between two
\* operations of the loop.
C27_TurnOrder == [](TurnInRange) /\ [][TurnStep]_vars

C27_Witness ==
    /\ pc = "run"
    /\ ret.valid
    /\ game.obj.pass_count = 0
    /\ game.obj.current_player_id = 2
    /\ game.obj.last_player_id = 1
    /\ 0 \in DOMAIN game.obj.player_passed
    /\ game.obj.player_passed[0]

-----------------------------------------------------------------------------
(* the end of a game under SpecGame *)

Landlord == CHOOSE id \in PlayerIds : game.obj.players[id].is_landlord

OverIffEmptyHand ==
    game.obj.phase = "GAME_OVER" <=> \E id \in PlayerIds : Hands[id] = {}

WinnerDeclared ==
    game.obj.phase = "GAME_OVER" =>
        game.obj.game_message =
            IF Hands[Landlord] = {} THEN "landlord wins" ELSE "farmers win"

EntersGameOver == game.obj.phase # "GAME_OVER" /\ game'.obj.phase = "GAME_OVER"

OverStep ==
    /\ EntersGameOver =>
          /\ AcceptedPlay
          /\ Hands[game.obj.current_player_id] # {}
          /\ Hands'[game.obj.current_player_id] = {}
    /\ game.obj.phase = "GAME_OVER" /\ game'.obj.phase = "GAME_OVER" =>
          /\ Hands' = Hands
          /\ game'.obj.table_cards = game.obj.table_cards
          /\ game'.obj.current_player_id = game.obj.current_player_id

\* C28: after the deal the phase is GAME_OVER exactly when some hand is
\* empty; it is entered by the accepted play that empties the mover's hand;
\* the message on display then declares the landlord the winner exactly when
\* the empty hand is the landlord's; until a restart no hand, table_cards or
\* current_player_id changes.
C28_GameOver == [](OverIffEmptyHand /\ WinnerDeclared) /\ [][OverStep]_vars

-----------------------------------------------------------------------------
(***************************************************************************)
(* SpecOrder: _compare_play on three legal plays.  cards is compared with  *)
(* table_cards; game.earlier_cards is a third play, which table_cards may  *)
(* have beaten in its turn.                                                *)
(***************************************************************************)

OrderSpan == 1
OrderMax == 5

LegalPlays(span, maxn) == {c \in BagsOver(span, maxn) : classify_cards(c) # NoPlay}

InitOrder ==
    /\ \E P \in {LegalPlays(OrderSpan, OrderMax)} :
          /\ cards \in P
          /\ table_cards \in P
          /\ \E c \in P : game = [phase |-> "NONE", earlier_cards |-> c]
    /\ is_landlord = FALSE
    /\ pc = "input"
    /\ ret = NoRet

NextOrder == ComparePlay

SpecOrder == InitOrder /\ [][NextOrder]_vars

\* C29: on legal plays, when _compare_play says the first play beats the
\* second it says -1 for the second against the first, and when the second
\* beats a third play as well the first beats the third.
C29_BeatsIsStrictOrder ==
    (pc = "_compare_play" /\ ret.compare = 1) =>
        /\ compare_play(table_cards, cards) = -1
        /\ compare_play(table_cards, game.earlier_cards) = 1
              => compare_play(cards, game.earlier_cards) = 1

C29_Witness ==
    /\ pc = "_compare_play"
    /\ ret.compare = 1
    /\ IsBomb(cards)
    /\ Ordinary(table_cards)
    /\ Size(table_cards) = 4
    /\ compare_play(table_cards, game.earlier_cards) = 1
    /\ compare_play(cards, game.earlier_cards) = 1

-----------------------------------------------------------------------------
(***************************************************************************)
(* The sliding puzzle (sliding_puzzle.py, class PuzzleGame).  A cell is a  *)
(* pair <<row, col>>, counted from 0; puzzle_grid maps the cells to the    *)
(* tile numbers and None.  In SpecPuzzle game.obj is the PuzzleGame object *)
(* and game.calls counts the operations made.                              *)
(***************************************************************************)

None == 0

\* the sizes of the size buttons
GridSizes == 3..6

Cells(n) == (0..(n - 1)) \X (0..(n - 1))

\* PuzzleGame.__init__
NewPuzzleGame ==
    [cropped_image |-> FALSE,
     grid_size |-> 3,
     puzzle_grid |-> [cell \in {} |-> None],
     empty_pos |-> <<0, 0>>,
     moves |-> 0,
     game_started |-> FALSE,
     solved |-> FALSE]

\* the grid both initialize_puzzle_grid and solve_puzzle build
solved_grid(n) ==
    [cell \in Cells(n) |->
        IF cell[1] = n - 1 /\ cell[2] = n - 1 THEN None ELSE cell[1] * n + cell[2] + 1]

\* PuzzleGame.load_image with a file that opens
load_image(g) == [g EXCEPT !.cropped_image = TRUE]

\* PuzzleGame.initialize_puzzle_grid
initialize_puzzle_grid(g) ==
    [g EXCEPT !.puzzle_grid = solved_grid(g.grid_size),
              !.empty_pos = <<g.grid_size - 1, g.grid_size - 1>>]

\* PuzzleGame.generate_puzzle
generate_puzzle(g) ==
    IF ~g.cropped_image THEN g
    ELSE initialize_puzzle_grid([g EXCEPT !.game_started = TRUE,
                                          !.solved = FALSE,
                                          !.moves = 0])

\* PuzzleGame.select_grid_size
select_grid_size(g, size) ==
    LET sized == [g EXCEPT !.grid_size = size]
    IN  IF g.cropped_image THEN generate_puzzle(sized) ELSE sized

\* the exchange of the tile at cell with the empty cell
Slide(g, cell) ==
    [g EXCEPT !.puzzle_grid = [@ EXCEPT ![cell] = g.puzzle_grid[g.empty_pos],
                                        ![g.empty_pos] = g.puzzle_grid[cell]],
              !.empty_pos = cell]

directions == {<<0, 1>>, <<0, -1>>, <<1, 0>>, <<-1, 0>>}

\* the cells the empty cell can go to in one move of shuffle_puzzle
valid_moves(g) ==
    {cell \in Cells(g.grid_size) :
        \E d \in directions : cell = <<g.empty_pos[1] + d[1], g.empty_pos[2] + d[2]>>}

\* the objects the loop of shuffle_puzzle can reach in k random moves
RECURSIVE Shuffled(_, _)
Shuffled(g, k) ==
    IF k = 0 \/ valid_moves(g) = {} THEN {g}
    ELSE UNION {Shuffled(Slide(g, cell), k - 1) : cell \in valid_moves(g)}

\* PuzzleGame.shuffle_puzzle(moves): the objects it can leave
shuffle_puzzle(g, moves) ==
    IF ~g.game_started THEN {g}
    ELSE {[s EXCEPT !.solved = FALSE, !.moves = 0] : s \in Shuffled(g, moves)}

\* PuzzleGame.check_solution
check_solution(g) ==
    \A cell \in Cells(g.grid_size) : g.puzzle_grid[cell] = solved_grid(g.grid_size)[cell]

Abs(x) == IF x < 0 THEN -x ELSE x

\* PuzzleGame.move_piece (with handle_solve)
move_piece(g, grid_pos) ==
    LET row == grid_pos[1]
        col == grid_pos[2]
        moved == [Slide(g, grid_pos) EXCEPT !.moves = g.moves + 1]
    IN  IF g.solved \/ ~g.game_started THEN g
        ELSE IF \/ Abs(row - g.empty_pos[1]) = 1 /\ col = g.empty_pos[2]
                \/ Abs(col - g.empty_pos[2]) = 1 /\ row = g.empty_pos[1]
        THEN [moved EXCEPT !.solved = check_solution(moved)]
        ELSE g

\* PuzzleGame.solve_puzzle (with handle_solve)
solve_puzzle(g) ==
    IF ~g.game_started THEN g
    ELSE [g EXCEPT !.puzzle_grid = solved_grid(g.grid_size),
                   !.empty_pos = <<g.grid_size - 1, g.grid_size - 1>>,
                   !.solved = TRUE]

\* the random moves of one shuffle (the button calls shuffle_puzzle with its
\* default of 100) and the operations followed
ShuffleMoves == 4
MaxPuzzleCalls == 4

InitPuzzle ==
    /\ GameIdle
    /\ pc = "__init__"
    /\ ret = NoRet
    /\ game = [obj |-> NewPuzzleGame, calls |-> 0]

PuzzleCall(op, obj) ==
    /\ game' = [obj |-> obj, calls |-> game.calls + 1]
    /\ pc' = op
    /\ ret' = NoRet
    /\ UNCHANGED <<cards, table_cards, is_landlord>>

LoadImage ==
    /\ game.calls < MaxPuzzleCalls
    /\ PuzzleCall("load_image", load_image(game.obj))

SelectGridSize ==
    /\ game.calls < MaxPuzzleCalls
    /\ \E size \in GridSizes :
          PuzzleCall("select_grid_size", select_grid_size(game.obj, size))

GeneratePuzzle ==
    /\ game.calls < MaxPuzzleCalls
    /\ PuzzleCall("generate_puzzle", generate_puzzle(game.obj))

ShufflePuzzle ==
    /\ game.calls < MaxPuzzleCalls
    /\ \E s \in shuffle_puzzle(game.obj, ShuffleMoves) : PuzzleCall("shuffle_puzzle", s)

\* handle_events: a click on a piece while the game runs
MovePiece ==
    /\ game.calls < MaxPuzzleCalls
    /\ game.obj.game_started /\ ~game.obj.solved
    /\ \E grid_pos \in Cells(game.obj.grid_size) :
          /\ game.obj.puzzle_grid[grid_pos] # None
          /\ PuzzleCall("move_piece", move_piece(game.obj, grid_pos))

SolvePuzzle ==
    /\ game.calls < MaxPuzzleCalls
    /\ PuzzleCall("solve_puzzle", solve_puzzle(game.obj))

NextPuzzle ==
    LoadImage \/ SelectGridSize \/ GeneratePuzzle \/ ShufflePuzzle \/ MovePiece \/ SolvePuzzle

SpecPuzzle == InitPuzzle /\ [][NextPuzzle]_vars

\* the grid holds each of the tiles 1..n*n-1 once and None at empty_pos
GridIsPermutation ==
    LET n == game.obj.grid_size
        grid == game.obj.puzzle_grid
    IN  /\ DOMAIN grid = Cells(n)
        /\ {grid[cell] : cell \in Cells(n)} = 0..(n * n - 1)
        /\ game.obj.empty_pos \in Cells(n)
        /\ grid[game.obj.empty_pos] = None

\* C30: once a puzzle is generated, after generate_puzzle, shuffle_puzzle,
\* move_piece and solve_puzzle the grid is a permutation of the tiles with
\* the empty cell at empty_pos, and solved is true exactly when the grid is
\* in the solved arrangement.
C30_PuzzleInvariant ==
    game.obj.game_started =>
        /\ GridIsPermutation
        /\ game.obj.solved <=> check_solution(game.obj)

====
